---- MODULE Spec2Model ----
(***************************************************************************)
(* GPS track optimisation engine of sistemarutasyantzaza                   *)
(* (src/services/route_optimizer.py, class AdvancedRouteOptimizer).        *)
(*                                                                         *)
(* Number representation.  The source works on floats; the model works on  *)
(* integers in fixed point, with these units:                              *)
(*   - a point is <<lat, lon>>, each coordinate an integer count of        *)
(*     2^-13 degree (0.0001220703125 degree, exactly representable as a    *)
(*     float, so that the source's products and differences of the         *)
(*     coordinates are exact and equal deviations are equal floats);       *)
(*   - a distance in metres (geodesic(...).meters) is an integer count of  *)
(*     10^-5 m (hundredths of a millimetre), right to about one unit per   *)
(*     leg, so that the rounded figures of a report are the source's;      *)
(*   - a deviation or an epsilon of the curve simplifier (decimal degrees) *)
(*     is an integer count of 10^-7 degree, rounded down;                  *)
(*   - an angle in degrees (calculate_angle) is carried by its strictly    *)
(*     increasing image AngleCode(theta) = 10^4 * (1 - sgn(cos theta) *    *)
(*     cos^2 theta), rounded: 0 degrees is 0, 90 degrees is 10000, 180     *)
(*     degrees is 20000, and 160 degrees is 18830.                         *)
(* Python sequences are 0-based; At(s, i) reads s[i].                      *)
(***************************************************************************)
EXTENDS Integers, Sequences, FiniteSets, TLC

\* ------------------------------------------------------------ bounds
\* Longest track handed to a single stage.
MaxLen == 4
\* Most points, over all files, handed to one run of the pipeline.
MaxPts == 3
\* Most points of one uploaded file; a route is made of two files.
MaxUpload == 2
\* Most points, over all files, of a run on a track that comes back to places it has been.
MaxLong == 6
\* Longest track handed to the backtrack remover alone.
MaxScan == 7

\* ------------------------------------------------------------ inputs
\* Latitudes and longitudes of the sample points (units of 2^-13 degree, at
\* the equator).  One unit is 13.5 m, so the grid has spacings below and
\* above min_distance (15 m) and threshold_distance (50 m), and deviations
\* between and beyond the three epsilons.
LatSet == {0, 1, 4}
LonSet == {0, 1, 6}
Grid == (LatSet \X LonSet) \ {<<1, 6>>, <<4, 6>>}

Tracks(n) == UNION {[1..k -> Grid] : k \in 0..n}

\* ------------------------------------------------------------ helpers
At(s, i) == s[i + 1]
Last(s) == s[Len(s)]
\* s[a:b] of Python, 0 <= a <= b <= len(s)
Slice(s, a, b) == SubSeq(s, a + 1, b)
Abs(x) == IF x < 0 THEN -x ELSE x
Min(a, b) == IF a < b THEN a ELSE b
Max(a, b) == IF a > b THEN a ELSE b

RECURSIVE SqrtSearch(_, _, _)
SqrtSearch(n, lo, hi) ==
    IF lo >= hi THEN lo
    ELSE LET mid == (lo + hi + 1) \div 2
         IN  IF mid * mid <= n THEN SqrtSearch(n, mid, hi)
             ELSE SqrtSearch(n, lo, mid - 1)
\* floor of the square root (math.sqrt, rounded down to the unit in use)
ISqrt(n) == SqrtSearch(n, 0, Min(n, 46340))

\* ------------------------------------------------------------ distance
\* geodesic(point1, point2).meters on the WGS-84 ellipsoid.  Between points a few hundred
\* metres apart it is sqrt((M * dlat)^2 + (N * dlon)^2), M and N being the lengths of one
\* unit (2^-13 degree) of latitude and of longitude at the latitude of the points:
\*     at the equator   M = 13.497836404 m   N = 13.588805028 m
\*     at 55 degrees N  M = 13.589298117 m   N =  7.811783362 m
\* (110574.3 and 111319.5 m per degree; 111323.5 and 63994.1 m per degree).  In integers of
\* 32 bits it is computed as  (M / sqrt(SqScale)) * sqrt(SqScale * dlat^2 + LonSq * dlon^2),
\* with LonSq = SqScale * (N / M)^2: the square root is taken of an integer below 2^31 and
\* its fraction comes from the remainder.
\* The scale of the squared length, chosen so that LonSq and LonSqNorth are whole to 10^-2
SqScale == 2157210
\* SqScale * (N / M)^2 at the equator, and M / sqrt(SqScale) there in 10^-5 m: 919.005155,
\* the whole part, then the thousandths and the millionths
LonSq == 2186385
RootLen == 919
RootLenMilli == 5
RootLenMicro == 155
\* The parallel of 55 degrees north (55 * 2^13 units): two units of longitude are 15.6 m
\* there, a spacing between min_distance and a third of threshold_distance.
NorthLat == 450560
\* SqScale * (N / M)^2 at 55 degrees north, and M / sqrt(SqScale) there: 925.232360
LonSqNorth == 712851
RootLenNorth == 925
RootLenMilliNorth == 232
RootLenMicroNorth == 360

\* The ellipsoid around the latitude of point1: the equator, or the northern parallel
GeodesicAt(lat) ==
    IF lat >= NorthLat
    THEN [lon_sq |-> LonSqNorth, whole |-> RootLenNorth, milli |-> RootLenMilliNorth,
          micro |-> RootLenMicroNorth]
    ELSE [lon_sq |-> LonSq, whole |-> RootLen, milli |-> RootLenMilli, micro |-> RootLenMicro]

\* The length whose scaled square is given, root being the floor of its square root: the
\* fraction of the root, in 10^-4, is remainder / (2 * root).
GeodesicOfRoot(at, square, root) ==
    root * at.whole
    + (root * at.milli * 10 + (root * at.micro) \div 100
       + (((square - root * root) * 5000) \div root) * at.whole + 5000) \div 10000

GeodesicOfSquare(at, square) ==
    IF square = 0 THEN 0 ELSE GeodesicOfRoot(at, square, ISqrt(square))

GeodesicBetween(at, dlat, dlon) ==
    GeodesicOfSquare(at, SqScale * dlat * dlat + at.lon_sq * dlon * dlon)

\* calculate_distance: geodesic(point1, point2).meters, in 10^-5 m
calculate_distance(point1, point2) ==
    GeodesicBetween(GeodesicAt(point1[1]), point2[1] - point1[1], point2[2] - point1[2])

RECURSIVE SumDistance(_, _)
SumDistance(points, i) ==
    IF i >= Len(points) - 1 THEN 0
    ELSE calculate_distance(At(points, i), At(points, i + 1)) + SumDistance(points, i + 1)

\* calculate_total_distance, in 10^-5 m
calculate_total_distance(points) ==
    IF Len(points) < 2 THEN 0 ELSE SumDistance(points, 0)

\* ------------------------------------------------------------ noise filter
\* Scale of AngleCode: the code of 90 degrees.
AngleScale == 10000
\* angle_threshold = 160 degrees as an AngleCode: 10^4 * (1 + cos^2 160)
AngleThresholdDefault == 18830
\* min_distance = 15 m, in 10^-5 m
MinDistanceDefault == 1500000

\* calculate_angle(p1, p2, p3): the angle between p1->p2 and p2->p3, as an AngleCode
calculate_angle(p1, p2, p3) ==
    LET v1 == <<p2[1] - p1[1], p2[2] - p1[2]>>
        v2 == <<p3[1] - p2[1], p3[2] - p2[2]>>
        dot_product == v1[1] * v2[1] + v1[2] * v2[2]
        mag1sq == v1[1] * v1[1] + v1[2] * v1[2]
        mag2sq == v2[1] * v2[1] + v2[2] * v2[2]
    IN  IF mag1sq = 0 \/ mag2sq = 0 THEN 0
        ELSE LET cos2 == Min(AngleScale, (dot_product * dot_product * AngleScale) \div (mag1sq * mag2sq))
             IN  IF dot_product >= 0 THEN AngleScale - cos2 ELSE AngleScale + cos2

\* The while loop of clean_route_advanced from index i with `cleaned` built so far.
RECURSIVE CleanLoop(_, _, _, _, _)
CleanLoop(points, cleaned, i, min_distance, angle_threshold) ==
    IF ~(i < Len(points) - 1) THEN cleaned
    ELSE LET current == At(points, i)
             prev == Last(cleaned)
             distance_to_prev == calculate_distance(prev, current)
         IN  IF distance_to_prev < min_distance
             THEN CleanLoop(points, cleaned, i + 1, min_distance, angle_threshold)
             ELSE IF Len(cleaned) >= 1 /\ i < Len(points) - 1
                     /\ calculate_angle(prev, current, At(points, i + 1)) > angle_threshold
             THEN CleanLoop(points, cleaned, i + 1, min_distance, angle_threshold)
             ELSE CleanLoop(points, Append(cleaned, current), i + 1, min_distance, angle_threshold)

NoStep == [i |-> 0, prev |-> <<0, 0>>, distance_to_prev |-> 0, triple |-> <<>>, decision |-> "none"]

\* The pass with the distance rule measuring from the point before in the input
RECURSIVE CleanStepsDistanceToRaw(_, _, _, _, _)
CleanStepsDistanceToRaw(points, cleaned, i, min_distance, angle_threshold) ==
    IF ~(i < Len(points) - 1) THEN <<>>
    ELSE LET current == At(points, i)
             prev == Last(cleaned)
             raw == At(points, i - 1)
             step == [NoStep EXCEPT !.i = i, !.prev = raw,
                                    !.distance_to_prev = calculate_distance(raw, current)]
             triple == <<prev, current, At(points, i + 1)>>
         IN  IF step.distance_to_prev < min_distance
             THEN <<[step EXCEPT !.decision = "distance"]>>
                  \o CleanStepsDistanceToRaw(points, cleaned, i + 1, min_distance, angle_threshold)
             ELSE IF calculate_angle(triple[1], triple[2], triple[3]) > angle_threshold
             THEN <<[step EXCEPT !.decision = "angle", !.triple = triple]>>
                  \o CleanStepsDistanceToRaw(points, cleaned, i + 1, min_distance, angle_threshold)
             ELSE <<[step EXCEPT !.decision = "kept", !.triple = triple]>>
                  \o CleanStepsDistanceToRaw(points, Append(cleaned, current), i + 1,
                                             min_distance, angle_threshold)

\* The pass with the angle rule taking the point before in the input as the first of its triple
RECURSIVE CleanStepsAngleFromRaw(_, _, _, _, _)
CleanStepsAngleFromRaw(points, cleaned, i, min_distance, angle_threshold) ==
    IF ~(i < Len(points) - 1) THEN <<>>
    ELSE LET current == At(points, i)
             prev == Last(cleaned)
             step == [NoStep EXCEPT !.i = i, !.prev = prev,
                                    !.distance_to_prev = calculate_distance(prev, current)]
             triple == <<At(points, i - 1), current, At(points, i + 1)>>
         IN  IF step.distance_to_prev < min_distance
             THEN <<[step EXCEPT !.decision = "distance"]>>
                  \o CleanStepsAngleFromRaw(points, cleaned, i + 1, min_distance, angle_threshold)
             ELSE IF calculate_angle(triple[1], triple[2], triple[3]) > angle_threshold
             THEN <<[step EXCEPT !.decision = "angle", !.triple = triple]>>
                  \o CleanStepsAngleFromRaw(points, cleaned, i + 1, min_distance, angle_threshold)
             ELSE <<[step EXCEPT !.decision = "kept", !.triple = triple]>>
                  \o CleanStepsAngleFromRaw(points, Append(cleaned, current), i + 1,
                                            min_distance, angle_threshold)

\* The pass with the angle rule dropping the points where the track goes straight on (turn
\* below 180 degrees less the threshold) and keeping the reversals
RECURSIVE CleanStepsStraight(_, _, _, _, _)
CleanStepsStraight(points, cleaned, i, min_distance, angle_threshold) ==
    IF ~(i < Len(points) - 1) THEN <<>>
    ELSE LET current == At(points, i)
             prev == Last(cleaned)
             step == [NoStep EXCEPT !.i = i, !.prev = prev,
                                    !.distance_to_prev = calculate_distance(prev, current)]
             triple == <<prev, current, At(points, i + 1)>>
         IN  IF step.distance_to_prev < min_distance
             THEN <<[step EXCEPT !.decision = "distance"]>>
                  \o CleanStepsStraight(points, cleaned, i + 1, min_distance, angle_threshold)
             ELSE IF calculate_angle(triple[1], triple[2], triple[3]) < 2 * AngleScale - angle_threshold
             THEN <<[step EXCEPT !.decision = "angle", !.triple = triple]>>
                  \o CleanStepsStraight(points, cleaned, i + 1, min_distance, angle_threshold)
             ELSE <<[step EXCEPT !.decision = "kept", !.triple = triple]>>
                  \o CleanStepsStraight(points, Append(cleaned, current), i + 1,
                                        min_distance, angle_threshold)

\* The while loop of clean_route_advanced (lines 77-99) told step by step: for each interior
\* index i the reference point prev = cleaned[-1], the distance measured from it, the triple
\* handed to calculate_angle when the distance rule let the point through, and what became
\* of the point (dropped by the distance rule, dropped by the angle rule, kept).
RECURSIVE CleanSteps(_, _, _, _, _)
CleanSteps(points, cleaned, i, min_distance, angle_threshold) ==
    IF ~(i < Len(points) - 1) THEN <<>>
    ELSE LET current == At(points, i)
             prev == Last(cleaned)
             step == [NoStep EXCEPT !.i = i, !.prev = prev,
                                    !.distance_to_prev = calculate_distance(prev, current)]
             triple == <<prev, current, At(points, i + 1)>>
         IN  IF step.distance_to_prev < min_distance
             THEN <<[step EXCEPT !.decision = "distance"]>>
                  \o CleanSteps(points, cleaned, i + 1, min_distance, angle_threshold)
             ELSE IF Len(cleaned) >= 1 /\ i < Len(points) - 1
                     /\ calculate_angle(triple[1], triple[2], triple[3]) > angle_threshold
             THEN <<[step EXCEPT !.decision = "angle", !.triple = triple]>>
                  \o CleanSteps(points, cleaned, i + 1, min_distance, angle_threshold)
             ELSE <<[step EXCEPT !.decision = "kept", !.triple = triple]>>
                  \o CleanSteps(points, Append(cleaned, current), i + 1, min_distance, angle_threshold)

\* clean_route_advanced without its closing step that keeps the last point
clean_route_no_last(points, min_distance, angle_threshold) ==
    IF Len(points) <= 2 THEN points
    ELSE CleanLoop(points, <<At(points, 0)>>, 1, min_distance, angle_threshold)

\* The pass with the angle rule dropping the points that lie straight between their
\* neighbours (turn below 180 degrees less the threshold) instead of the sharp reversals
RECURSIVE CleanLoopStraight(_, _, _, _, _)
CleanLoopStraight(points, cleaned, i, min_distance, angle_threshold) ==
    IF ~(i < Len(points) - 1) THEN cleaned
    ELSE LET current == At(points, i)
             prev == Last(cleaned)
         IN  IF calculate_distance(prev, current) < min_distance
             THEN CleanLoopStraight(points, cleaned, i + 1, min_distance, angle_threshold)
             ELSE IF calculate_angle(prev, current, At(points, i + 1)) < 2 * AngleScale - angle_threshold
             THEN CleanLoopStraight(points, cleaned, i + 1, min_distance, angle_threshold)
             ELSE CleanLoopStraight(points, Append(cleaned, current), i + 1, min_distance, angle_threshold)

clean_route_straightness(points, min_distance, angle_threshold) ==
    IF Len(points) <= 2 THEN points
    ELSE LET cleaned == CleanLoopStraight(points, <<At(points, 0)>>, 1, min_distance, angle_threshold)
         IN  IF Last(cleaned) # Last(points) THEN Append(cleaned, Last(points))
             ELSE cleaned

\* clean_route_advanced with the pass run on tracks of one or two points as well
clean_route_without_short_return(points, min_distance, angle_threshold) ==
    IF points = <<>> THEN points
    ELSE LET cleaned == CleanLoop(points, <<At(points, 0)>>, 1, min_distance, angle_threshold)
         IN  IF Last(cleaned) # Last(points) THEN Append(cleaned, Last(points))
             ELSE cleaned

\* The while loop with distance_to_prev measured from points[i - 1] instead of cleaned[-1]
RECURSIVE CleanLoopDistanceToRaw(_, _, _, _, _)
CleanLoopDistanceToRaw(points, cleaned, i, min_distance, angle_threshold) ==
    IF ~(i < Len(points) - 1) THEN cleaned
    ELSE LET current == At(points, i)
             prev == Last(cleaned)
             distance_to_prev == calculate_distance(At(points, i - 1), current)
         IN  IF distance_to_prev < min_distance
             THEN CleanLoopDistanceToRaw(points, cleaned, i + 1, min_distance, angle_threshold)
             ELSE IF Len(cleaned) >= 1 /\ i < Len(points) - 1
                     /\ calculate_angle(prev, current, At(points, i + 1)) > angle_threshold
             THEN CleanLoopDistanceToRaw(points, cleaned, i + 1, min_distance, angle_threshold)
             ELSE CleanLoopDistanceToRaw(points, Append(cleaned, current), i + 1,
                                         min_distance, angle_threshold)

\* clean_route_advanced over the loop that measures from the input's previous point
clean_route_distance_to_raw(points, min_distance, angle_threshold) ==
    IF Len(points) <= 2 THEN points
    ELSE LET cleaned == CleanLoopDistanceToRaw(points, <<At(points, 0)>>, 1, min_distance, angle_threshold)
         IN  IF Last(cleaned) # Last(points) THEN Append(cleaned, Last(points))
             ELSE cleaned

\* clean_route_advanced(points, min_distance, angle_threshold)
clean_route_advanced(points, min_distance, angle_threshold) ==
    IF Len(points) <= 2 THEN points
    ELSE LET cleaned == CleanLoop(points, <<At(points, 0)>>, 1, min_distance, angle_threshold)
         IN  IF Last(cleaned) # Last(points) THEN Append(cleaned, Last(points))
             ELSE cleaned

\* ------------------------------------------------------------ backtrack remover
\* threshold_distance = 50 m, in 10^-5 m
ThresholdDistanceDefault == 5000000
\* for j in range(i + 3, min(i + 50, len(points)))
LookaheadFrom == 3
LookaheadTo == 50
\* for k in range(max(0, len(cleaned) - 10), len(cleaned))
Lookback == 10
\* if len(cleaned) >= 3
MinCleaned == 3

\* The inner for-k loop: some recently retained point is within the threshold of future_point.
NearRecent(cleaned, future_point, threshold_distance) ==
    \E k \in Max(0, Len(cleaned) - Lookback) .. Len(cleaned) - 1 :
        calculate_distance(At(cleaned, k), future_point) < threshold_distance

\* The for-j loop looking ahead from i + 2, where a jump leaves out a single point
BacktrackTargetsFromSecond(points, cleaned, i, threshold_distance) ==
    {j \in i + LookaheadFrom - 1 .. Min(i + LookaheadTo, Len(points)) - 1 :
        NearRecent(cleaned, At(points, j), threshold_distance)}

\* The for-j loop: the indices j at which the inner loop breaks.
BacktrackTargets(points, cleaned, i, threshold_distance) ==
    {j \in i + LookaheadFrom .. Min(i + LookaheadTo, Len(points)) - 1 :
        NearRecent(cleaned, At(points, j), threshold_distance)}

SetMin(S) == CHOOSE x \in S : \A y \in S : x <= y

\* The while loop jumping with i = j, so that the closing i += 1 goes past the forward point
RECURSIVE BacktrackLoopPastTarget(_, _, _, _, _)
BacktrackLoopPastTarget(points, cleaned0, removed_segments, i, threshold_distance) ==
    IF ~(i < Len(points)) THEN <<cleaned0, removed_segments>>
    ELSE LET cleaned == Append(cleaned0, At(points, i))
             targets == IF Len(cleaned) >= MinCleaned
                        THEN BacktrackTargets(points, cleaned, i, threshold_distance)
                        ELSE {}
         IN  IF targets # {}
             THEN BacktrackLoopPastTarget(points, cleaned, removed_segments + 1,
                                          SetMin(targets) + 1, threshold_distance)
             ELSE BacktrackLoopPastTarget(points, cleaned, removed_segments, i + 1,
                                          threshold_distance)

\* The while loop of remove_backtracking from index i; returns <<cleaned, removed_segments>>.
RECURSIVE BacktrackLoop(_, _, _, _, _)
BacktrackLoop(points, cleaned0, removed_segments, i, threshold_distance) ==
    IF ~(i < Len(points)) THEN <<cleaned0, removed_segments>>
    ELSE LET cleaned == Append(cleaned0, At(points, i))
             targets == IF Len(cleaned) >= MinCleaned
                        THEN BacktrackTargets(points, cleaned, i, threshold_distance)
                        ELSE {}
         IN  IF targets # {}
             THEN \* i = j - 1, removed_segments += 1, break; then i += 1
                  BacktrackLoop(points, cleaned, removed_segments + 1,
                                (SetMin(targets) - 1) + 1, threshold_distance)
             ELSE BacktrackLoop(points, cleaned, removed_segments, i + 1, threshold_distance)

SetMax(S) == CHOOSE x \in S : \A y \in S : x >= y

NoScan == [i |-> 0, retained |-> 0, j |-> -1, removed_segments |-> 0]

\* The scan jumping to the last forward point that comes near a recent one, not the first
RECURSIVE BacktrackStepsLastTarget(_, _, _, _, _)
BacktrackStepsLastTarget(points, cleaned0, removed_segments, i, threshold_distance) ==
    IF ~(i < Len(points)) THEN <<>>
    ELSE LET cleaned == Append(cleaned0, At(points, i))
             targets == IF Len(cleaned) >= MinCleaned
                        THEN BacktrackTargets(points, cleaned, i, threshold_distance)
                        ELSE {}
             step == [NoScan EXCEPT !.i = i, !.retained = Len(cleaned)]
         IN  IF targets # {}
             THEN <<[step EXCEPT !.j = SetMax(targets), !.removed_segments = removed_segments + 1]>>
                  \o BacktrackStepsLastTarget(points, cleaned, removed_segments + 1,
                                              (SetMax(targets) - 1) + 1, threshold_distance)
             ELSE <<[step EXCEPT !.removed_segments = removed_segments]>>
                  \o BacktrackStepsLastTarget(points, cleaned, removed_segments, i + 1,
                                              threshold_distance)

\* The scan without the increment that ends the loop body after a jump (i = j - 1 only)
RECURSIVE BacktrackStepsNoIncrement(_, _, _, _, _)
BacktrackStepsNoIncrement(points, cleaned0, removed_segments, i, threshold_distance) ==
    IF ~(i < Len(points)) THEN <<>>
    ELSE LET cleaned == Append(cleaned0, At(points, i))
             targets == IF Len(cleaned) >= MinCleaned
                        THEN BacktrackTargets(points, cleaned, i, threshold_distance)
                        ELSE {}
             step == [NoScan EXCEPT !.i = i, !.retained = Len(cleaned)]
         IN  IF targets # {}
             THEN <<[step EXCEPT !.j = SetMin(targets), !.removed_segments = removed_segments + 1]>>
                  \o BacktrackStepsNoIncrement(points, cleaned, removed_segments + 1,
                                               SetMin(targets) - 1, threshold_distance)
             ELSE <<[step EXCEPT !.removed_segments = removed_segments]>>
                  \o BacktrackStepsNoIncrement(points, cleaned, removed_segments, i + 1,
                                               threshold_distance)

\* The while loop of remove_backtracking (lines 149-173) told iteration by iteration: the
\* scan index i whose point is appended, the number of points retained with it, the index j
\* the scan jumps to (-1 when the for loops found none) and the counter after the iteration.
RECURSIVE BacktrackSteps(_, _, _, _, _)
BacktrackSteps(points, cleaned0, removed_segments, i, threshold_distance) ==
    IF ~(i < Len(points)) THEN <<>>
    ELSE LET cleaned == Append(cleaned0, At(points, i))
             targets == IF Len(cleaned) >= MinCleaned
                        THEN BacktrackTargets(points, cleaned, i, threshold_distance)
                        ELSE {}
             step == [NoScan EXCEPT !.i = i, !.retained = Len(cleaned)]
         IN  IF targets # {}
             THEN <<[step EXCEPT !.j = SetMin(targets), !.removed_segments = removed_segments + 1]>>
                  \o BacktrackSteps(points, cleaned, removed_segments + 1,
                                    (SetMin(targets) - 1) + 1, threshold_distance)
             ELSE <<[step EXCEPT !.removed_segments = removed_segments]>>
                  \o BacktrackSteps(points, cleaned, removed_segments, i + 1, threshold_distance)

\* remove_backtracking(points, threshold_distance): <<cleaned, removed_segments>>
remove_backtracking(points, threshold_distance) ==
    IF Len(points) <= 3 THEN <<points, 0>>
    ELSE BacktrackLoop(points, <<>>, 0, 0, threshold_distance)

\* ------------------------------------------------------------ curve simplifier
\* 2^-13 degree in units of 10^-10 degree, and the factor from there to 10^-7 degree
UnitE10 == 1220703
Milli == 1000
\* self.calculate_distance(point, line_start) / 111000: 10^-5 m to 10^-7 degree is / 1110
DegenerateDiv == 1110

\* perpendicular_distance(point, line_start, line_end), in 10^-7 degree
perpendicular_distance(point, line_start, line_end) ==
    LET x0 == point[1]
        y0 == point[2]
        x1 == line_start[1]
        y1 == line_start[2]
        x2 == line_end[1]
        y2 == line_end[2]
    IN  IF x1 = x2 /\ y1 = y2
        THEN calculate_distance(point, line_start) \div DegenerateDiv
        ELSE LET num == Abs((y2 - y1) * x0 - (x2 - x1) * y0 + x2 * y1 - y2 * x1)
                 den2 == (y2 - y1) * (y2 - y1) + (x2 - x1) * (x2 - x1)
             IN  (num * UnitE10) \div ISqrt(den2 * Milli * Milli)

\* The for loop of douglas_peucker_recursive: <<max_distance, max_index>> after indices i .. len-2.
RECURSIVE FindMax(_, _, _, _)
FindMax(points, i, max_distance, max_index) ==
    IF i > Len(points) - 2 THEN <<max_distance, max_index>>
    ELSE LET distance == perpendicular_distance(At(points, i), At(points, 0), Last(points))
         IN  IF distance > max_distance
             THEN FindMax(points, i + 1, distance, i)
             ELSE FindMax(points, i + 1, max_distance, max_index)

\* douglas_peucker_recursive(points, epsilon), epsilon >= 0 in 10^-7 degree
RECURSIVE douglas_peucker_recursive(_, _)
douglas_peucker_recursive(points, epsilon) ==
    IF Len(points) <= 2 THEN points
    ELSE LET m == FindMax(points, 1, 0, 0)
             max_distance == m[1]
             max_index == m[2]
         IN  IF max_distance > epsilon
             THEN LET left_half == douglas_peucker_recursive(Slice(points, 0, max_index + 1), epsilon)
                      right_half == douglas_peucker_recursive(Slice(points, max_index, Len(points)), epsilon)
                  IN  Slice(left_half, 0, Len(left_half) - 1) \o right_half
             ELSE <<At(points, 0), Last(points)>>

\* The epsilons of the three optimization levels, in 10^-7 degree
EpsilonAdvanced == 1000
EpsilonMedium == 2000
EpsilonBasic == 5000

\* douglas_peucker_simplify that ignores its epsilon and uses the default of the signature (0.0002)
simplify_default_epsilon(points, epsilon) ==
    IF Len(points) <= 2 THEN points
    ELSE douglas_peucker_recursive(points, EpsilonMedium)

\* douglas_peucker_recursive splitting at the last index the loop visited instead of max_index
RECURSIVE dp_split_at_loop_index(_, _)
dp_split_at_loop_index(points, epsilon) ==
    IF Len(points) <= 2 THEN points
    ELSE LET m == FindMax(points, 1, 0, 0)
             max_distance == m[1]
             max_index == Len(points) - 2
         IN  IF max_distance > epsilon
             THEN LET left_half == dp_split_at_loop_index(Slice(points, 0, max_index + 1), epsilon)
                      right_half == dp_split_at_loop_index(Slice(points, max_index, Len(points)), epsilon)
                  IN  Slice(left_half, 0, Len(left_half) - 1) \o right_half
             ELSE <<At(points, 0), Last(points)>>

\* douglas_peucker_simplify over the recursion that splits at the loop index
simplify_split_at_loop_index(points, epsilon) ==
    IF Len(points) <= 2 THEN points
    ELSE dp_split_at_loop_index(points, epsilon)

\* douglas_peucker_recursive keeping the whole sub-list where it should keep only the two ends
RECURSIVE dp_keep_sublist(_, _)
dp_keep_sublist(points, epsilon) ==
    IF Len(points) <= 2 THEN points
    ELSE LET m == FindMax(points, 1, 0, 0)
             max_distance == m[1]
             max_index == m[2]
         IN  IF max_distance > epsilon
             THEN LET left_half == dp_keep_sublist(Slice(points, 0, max_index + 1), epsilon)
                      right_half == dp_keep_sublist(Slice(points, max_index, Len(points)), epsilon)
                  IN  Slice(left_half, 0, Len(left_half) - 1) \o right_half
             ELSE points

\* douglas_peucker_simplify over the recursion that keeps the sub-list
simplify_keep_sublist(points, epsilon) ==
    IF Len(points) <= 2 THEN points
    ELSE dp_keep_sublist(points, epsilon)

\* douglas_peucker_recursive joining the halves whole, the split point standing in both
RECURSIVE dp_keep_split_twice(_, _)
dp_keep_split_twice(points, epsilon) ==
    IF Len(points) <= 2 THEN points
    ELSE LET m == FindMax(points, 1, 0, 0)
             max_distance == m[1]
             max_index == m[2]
         IN  IF max_distance > epsilon
             THEN LET left_half == dp_keep_split_twice(Slice(points, 0, max_index + 1), epsilon)
                      right_half == dp_keep_split_twice(Slice(points, max_index, Len(points)), epsilon)
                  IN  left_half \o right_half
             ELSE <<points[1], Last(points)>>

\* douglas_peucker_simplify over the recursion that keeps the split point twice
simplify_keep_split_twice(points, epsilon) ==
    IF Len(points) <= 2 THEN points
    ELSE dp_keep_split_twice(points, epsilon)

\* douglas_peucker_simplify(points, epsilon)
douglas_peucker_simplify(points, epsilon) ==
    IF Len(points) <= 2 THEN points
    ELSE douglas_peucker_recursive(points, epsilon)


\* ------------------------------------------------------------ pipeline
\* A GPX file: unreadable (missing or malformed), or the points of its tracks in order.
Unreadable == [readable |-> FALSE, points |-> <<>>]
GpxFile(t) == [readable |-> TRUE, points |-> t]
Files(n) == {Unreadable} \cup {GpxFile(t) : t \in Tracks(n)}

\* load_gpx_points(file_path): the points, or an exception
load_gpx_points(file) ==
    IF ~file.readable THEN [raised |-> TRUE, points |-> <<>>]
    ELSE [raised |-> FALSE, points |-> file.points]

\* The loading loop of optimize_route_advanced: a file that raises is skipped.
RECURSIVE LoadAll(_, _, _)
LoadAll(file_paths, n, all_points) ==
    IF n > Len(file_paths) THEN all_points
    ELSE LET loaded == load_gpx_points(file_paths[n])
         IN  IF loaded.raised THEN LoadAll(file_paths, n + 1, all_points)
             ELSE LoadAll(file_paths, n + 1, all_points \o loaded.points)

\* The level-to-epsilon mapping with the epsilons of advanced and basic exchanged
LevelEpsilonSwapped(optimize_level) ==
    IF optimize_level = "advanced" THEN EpsilonBasic
    ELSE IF optimize_level = "medium" THEN EpsilonMedium
    ELSE EpsilonAdvanced

\* The if/elif/else that chooses epsilon from optimize_level
LevelEpsilon(optimize_level) ==
    IF optimize_level = "advanced" THEN EpsilonAdvanced
    ELSE IF optimize_level = "medium" THEN EpsilonMedium
    ELSE EpsilonBasic

NotRun == [status |-> "not_run", level |-> "", all_points |-> <<>>, stages |-> <<>>,
           epsilon |-> 0, points |-> <<>>, distance |-> 0, backtracking_removed |-> 0,
           input_after |-> <<>>]

\* The list objects of one run.  `lists` holds every list the run has created, in order of
\* creation, and a reference is an index into it: list 1 is all_points.  A call returns
\* either the reference it was given (`return points`) or a reference to a new list.
CopyList(lists, ref) == [lists |-> Append(lists, lists[ref]), ref |-> Len(lists) + 1]

\* clean_route_advanced on a list object: `return points` when len <= 2, else the new list `cleaned`
clean_route_lists(lists, ref) ==
    IF Len(lists[ref]) <= 2 THEN [lists |-> lists, ref |-> ref]
    ELSE [lists |-> Append(lists, clean_route_advanced(lists[ref], MinDistanceDefault, AngleThresholdDefault)),
          ref |-> Len(lists) + 1]

\* remove_backtracking on a list object: `return points, 0` when len <= 3, else the new list `cleaned`
remove_backtracking_lists(lists, ref) ==
    LET r == remove_backtracking(lists[ref], ThresholdDistanceDefault)
    IN  IF Len(lists[ref]) <= 3 THEN [lists |-> lists, ref |-> ref, removed_segments |-> r[2]]
        ELSE [lists |-> Append(lists, r[1]), ref |-> Len(lists) + 1, removed_segments |-> r[2]]

\* douglas_peucker_simplify on a list object: `return points` when len <= 2, else a new list
douglas_peucker_lists(lists, ref, epsilon) ==
    IF Len(lists[ref]) <= 2 THEN [lists |-> lists, ref |-> ref]
    ELSE [lists |-> Append(lists, douglas_peucker_simplify(lists[ref], epsilon)), ref |-> Len(lists) + 1]

\* The stages run in the order simplifier, backtrack remover, noise filter
RunStagesReversed(all_points, optimize_level) ==
    LET copied == CopyList(<<all_points>>, 1)
        epsilon == LevelEpsilon(optimize_level)
        step1 == douglas_peucker_lists(copied.lists, copied.ref, epsilon)
        step2 == remove_backtracking_lists(step1.lists, step1.ref)
        step3 == clean_route_lists(step2.lists, step2.ref)
    IN  [status |-> "returned", level |-> optimize_level, all_points |-> all_points,
         stages |-> <<"douglas_peucker_simplify", "remove_backtracking", "clean_route_advanced">>,
         epsilon |-> epsilon, points |-> step3.lists[step3.ref],
         distance |-> calculate_total_distance(step3.lists[step3.ref]),
         backtracking_removed |-> step2.removed_segments,
         input_after |-> step3.lists[1]]

\* The stages run on all_points itself, each result stored back into it (all_points[:] = ...)
RunStagesInPlace(all_points, optimize_level) ==
    LET step1 == clean_route_advanced(all_points, MinDistanceDefault, AngleThresholdDefault)
        step2 == remove_backtracking(step1, ThresholdDistanceDefault)
        epsilon == LevelEpsilon(optimize_level)
        step3 == douglas_peucker_simplify(step2[1], epsilon)
    IN  [status |-> "returned", level |-> optimize_level, all_points |-> all_points,
         stages |-> <<"clean_route_advanced", "remove_backtracking", "douglas_peucker_simplify">>,
         epsilon |-> epsilon, points |-> step3,
         distance |-> calculate_total_distance(step3),
         backtracking_removed |-> step2[2],
         input_after |-> step3]

\* The run returning original_distance, the length of the loaded track, as its distance
RunStagesOriginalDistance(all_points, optimize_level) ==
    LET copied == CopyList(<<all_points>>, 1)
        step1 == clean_route_lists(copied.lists, copied.ref)
        step2 == remove_backtracking_lists(step1.lists, step1.ref)
        epsilon == LevelEpsilon(optimize_level)
        step3 == douglas_peucker_lists(step2.lists, step2.ref, epsilon)
    IN  [status |-> "returned", level |-> optimize_level, all_points |-> all_points,
         stages |-> <<"clean_route_advanced", "remove_backtracking", "douglas_peucker_simplify">>,
         epsilon |-> epsilon, points |-> step3.lists[step3.ref],
         distance |-> calculate_total_distance(all_points),
         backtracking_removed |-> step2.removed_segments,
         input_after |-> step3.lists[1]]

\* The stages of optimize_route_advanced on the loaded points, and what the run returns
RunStages(all_points, optimize_level) ==
    LET copied == CopyList(<<all_points>>, 1)
        step1 == clean_route_lists(copied.lists, copied.ref)
        step2 == remove_backtracking_lists(step1.lists, step1.ref)
        epsilon == LevelEpsilon(optimize_level)
        step3 == douglas_peucker_lists(step2.lists, step2.ref, epsilon)
    IN  [status |-> "returned", level |-> optimize_level, all_points |-> all_points,
         stages |-> <<"clean_route_advanced", "remove_backtracking", "douglas_peucker_simplify">>,
         epsilon |-> epsilon, points |-> step3.lists[step3.ref],
         distance |-> calculate_total_distance(step3.lists[step3.ref]),
         backtracking_removed |-> step2.removed_segments,
         input_after |-> step3.lists[1]]

\* optimize_route_advanced without its `if not all_points: raise`
optimize_without_empty_check(file_paths, optimize_level) ==
    RunStages(LoadAll(file_paths, 1, <<>>), optimize_level)

\* optimize_route_advanced that wants at least two points
optimize_needs_two_points(file_paths, optimize_level) ==
    LET all_points == LoadAll(file_paths, 1, <<>>)
    IN  IF Len(all_points) < 2
        THEN [NotRun EXCEPT !.status = "raised", !.level = optimize_level]
        ELSE RunStages(all_points, optimize_level)

\* optimize_route_advanced(file_paths, optimize_level): what the run did and gave
optimize_route_advanced(file_paths, optimize_level) ==
    LET all_points == LoadAll(file_paths, 1, <<>>)
    IN  IF all_points = <<>>
        THEN [NotRun EXCEPT !.status = "raised", !.level = optimize_level]
        ELSE RunStages(all_points, optimize_level)

\* ---- validate_optimization: the report on an optimization
\* round(): to the nearest whole number of units, a half going to the even one. n / d with d > 0.
RoundHalfEven(n, d) ==
    LET q == n \div d
        r == n - q * d
    IN  IF 2 * r < d THEN q
        ELSE IF 2 * r > d THEN q + 1
        ELSE IF q % 2 = 0 THEN q ELSE q + 1

\* round(n / d * 100, 1) in tenths of a percent, by long division: n / d to three decimal
\* places, a half going to the even one.  d > 0, and 10 * d stays below 2^31.
RECURSIVE LongDivision(_, _, _, _)
LongDivision(q, r, d, places) ==
    IF places = 0
    THEN IF 2 * r < d THEN q
         ELSE IF 2 * r > d THEN q + 1
         ELSE IF q % 2 = 0 THEN q ELSE q + 1
    ELSE LongDivision(10 * q + (10 * r) \div d, (10 * r) % d, d, places - 1)
\* Decimal places of a ratio that make tenths of a percent
PerMillePlaces == 3
RoundPerMille(n, d) ==
    IF n >= 0 THEN LongDivision(n \div d, n % d, d, PerMillePlaces)
    ELSE 0 - LongDivision((0 - n) \div d, (0 - n) % d, d, PerMillePlaces)

\* 10^-5 m in one hundredth of a kilometre, the unit of the report's distances
UnitsPerCentiKm == 1000000
\* Tenths of a percent in the whole, the unit of the report's percentage and score
PerMille == 1000

NoReport == [status |-> "none", original |-> <<>>, optimized |-> <<>>,
             original_points |-> 0, optimized_points |-> 0, points_reduction |-> 0,
             original_distance_km |-> 0, optimized_distance_km |-> 0, distance_reduction_km |-> 0,
             distance_reduction_percent |-> 0, loops_removed |-> 0, efficiency_score |-> 0]

\* The report with the efficiency score counting the points kept instead of the points dropped
validate_score_of_kept(original_points, optimized_points) ==
    LET original_distance == calculate_total_distance(original_points)
        optimized_distance == calculate_total_distance(optimized_points)
        distance_reduction == original_distance - optimized_distance
    IN  IF Len(original_points) = 0
        THEN [NoReport EXCEPT !.status = "raised", !.original = original_points,
                              !.optimized = optimized_points]
        ELSE [status |-> "returned", original |-> original_points, optimized |-> optimized_points,
              original_points |-> Len(original_points), optimized_points |-> Len(optimized_points),
              points_reduction |-> Len(original_points) - Len(optimized_points),
              original_distance_km |-> RoundHalfEven(original_distance, UnitsPerCentiKm),
              optimized_distance_km |-> RoundHalfEven(optimized_distance, UnitsPerCentiKm),
              distance_reduction_km |-> RoundHalfEven(distance_reduction, UnitsPerCentiKm),
              distance_reduction_percent |->
                  IF original_distance > 0
                  THEN RoundPerMille(distance_reduction, original_distance)
                  ELSE 0,
              loops_removed |-> 0,
              efficiency_score |-> RoundHalfEven(Len(optimized_points) * PerMille, Len(original_points))]

\* Lines 285-307. Distances of the report in 0.01 km, percentage and score in 0.1 %.
\* No track of the grid has a total or a ratio nearer to a rounding boundary than the
\* distances are exact, so the figures are those of the floats.
\* Line 306 divides by len(original_points) whatever it is: with no original point the call
\* ends in ZeroDivisionError and there is no report.
validate_optimization(original_points, optimized_points) ==
    LET original_distance == calculate_total_distance(original_points)
        optimized_distance == calculate_total_distance(optimized_points)
        distance_reduction == original_distance - optimized_distance
        distance_reduction_percent ==
            IF original_distance > 0
            THEN RoundPerMille(distance_reduction, original_distance)
            ELSE 0
        points_reduction == Len(original_points) - Len(optimized_points)
    IN  IF Len(original_points) = 0
        THEN [NoReport EXCEPT !.status = "raised", !.original = original_points,
                              !.optimized = optimized_points]
        ELSE [status |-> "returned", original |-> original_points, optimized |-> optimized_points,
              original_points |-> Len(original_points), optimized_points |-> Len(optimized_points),
              points_reduction |-> points_reduction,
              original_distance_km |-> RoundHalfEven(original_distance, UnitsPerCentiKm),
              optimized_distance_km |-> RoundHalfEven(optimized_distance, UnitsPerCentiKm),
              distance_reduction_km |-> RoundHalfEven(distance_reduction, UnitsPerCentiKm),
              distance_reduction_percent |-> distance_reduction_percent,
              loops_removed |-> 0,
              efficiency_score |-> RoundHalfEven(points_reduction * PerMille, Len(original_points))]

\* ---- create_route: the caller's use of the pipeline (src/app.py)
optimize_route_quick(file_paths, optimize_level) == optimize_route_advanced(file_paths, optimize_level)

NotCreated == [status |-> "none", requested_level |-> "", seen_first |-> <<>>, seen_second |-> <<>>,
               original_points |-> <<>>, original_distance |-> 0, attempts |-> <<>>,
               optimal_path |-> <<>>, optimized_distance |-> 0,
               optimization_level |-> "", optimization_success |-> FALSE,
               distance_saved_meters |-> 0, estimated_time_saved_minutes |-> 0,
               loops_removed |-> 0, points_reduced |-> 0,
               outcome |-> "none", message |-> "none", category |-> "none"]

\* detect_loops(points): `return []`
detect_loops(points) == <<>>

\* int(distance_saved_km / 40 * 60): distance_saved_meters in 10^-5 m, times 60 / (40 * 10^8)
TimeSavedMul == 3
TimeSavedDiv == 200000000

\* Lines 1111-1125, the metrics of a request that went on: the saving with its max(0, .),
\* the minutes, the loops and the points.
WithDistanceSaved(made) ==
    IF made.status = "continued"
    THEN LET distance_saved_meters == Max(0, made.original_distance - made.optimized_distance)
         IN  [made EXCEPT
                 !.distance_saved_meters = distance_saved_meters,
                 !.estimated_time_saved_minutes = (distance_saved_meters * TimeSavedMul) \div TimeSavedDiv,
                 !.loops_removed = Max(0, Len(detect_loops(made.original_points))
                                            - Len(detect_loops(made.optimal_path))),
                 !.points_reduced = Max(0, Len(made.original_points) - Len(made.optimal_path))]
    ELSE made

\* Lines 1133-1288, what becomes of a request that went on.  stored: the map file was
\* written and the Route row committed; otherwise the commit is rolled back and the map
\* file removed (1262-1274), the exception is caught at 1290 and the request ends with an
\* error message and no row.  A request that ended before the runs stays as it ended.
StoreRoute(made, stored) ==
    IF made.status # "continued"
    THEN made
    ELSE IF ~stored
    THEN [made EXCEPT !.outcome = "failed", !.message = "error", !.category = "danger"]
    ELSE [made EXCEPT !.outcome = "saved",
                      !.message = IF made.optimization_success /\ made.distance_saved_meters > 0
                                  THEN "optimized" ELSE "created",
                      !.category = "success"]

\* Lines 997-1009, the refusals before any file is saved, each with its message:
\* no name or no file (998), a name in use (1002), no file ending in .gpx (1008).
Refusals == {"required", "name_in_use", "no_valid_gpx"}
Refused(optimization_level, why) ==
    [NotCreated EXCEPT !.status = "redirected", !.requested_level = optimization_level,
                       !.outcome = "refused", !.message = why, !.category = "danger"]

\* Lines 1290-1298 for an exception raised before the own load, as file.save does at 1026
\* when the upload folder is missing: error message, redirect, no load, no run, no row.
SaveFailed(optimization_level) ==
    [NotCreated EXCEPT !.status = "redirected", !.requested_level = optimization_level,
                       !.outcome = "failed", !.message = "error", !.category = "danger"]

\* Lines 1040-1042 and 1064-1066, the endings before the runs: no file was saved, or the
\* saved files gave no point.
EndedBeforeRuns(started, why) ==
    [started EXCEPT !.status = "redirected", !.outcome = why, !.message = why,
                    !.category = "danger"]

\* The route made of the first run whatever became of it, or else of the original points
create_route_without_quick(uploaded_files, optimization_level, seen_first, seen_second) ==
    LET original_points == LoadAll(uploaded_files, 1, <<>>)
        original_distance == calculate_total_distance(original_points)
        first == optimize_route_advanced(seen_first, optimization_level)
        started == [NotCreated EXCEPT !.requested_level = optimization_level,
                                      !.seen_first = seen_first, !.seen_second = seen_second,
                                      !.original_points = original_points,
                                      !.original_distance = original_distance]
    IN  IF uploaded_files = <<>> THEN EndedBeforeRuns(started, "not_saved")
        ELSE IF original_points = <<>> THEN EndedBeforeRuns(started, "no_points")
        ELSE WithDistanceSaved(
        IF first.status = "returned"
        THEN [started EXCEPT !.status = "continued", !.attempts = <<optimization_level>>,
                             !.optimal_path = first.points, !.optimized_distance = first.distance,
                             !.optimization_level = optimization_level,
                             !.optimization_success = TRUE]
        ELSE [started EXCEPT !.status = "continued", !.attempts = <<optimization_level>>,
                             !.optimal_path = original_points,
                             !.optimized_distance = original_distance,
                             !.optimization_level = "none", !.optimization_success = FALSE])

\* app.py lines 1040-1125. uploaded_files are the files as the caller loads them (1055-1063);
\* seen_first and seen_second are the same files as the first and the second run find them
\* when they load them again: a file can have changed in between, and a run that loads no
\* point raises. No file saved or no point loaded: the request ends before any run
\* (1040-1042, 1064-1066).
create_route(uploaded_files, optimization_level, seen_first, seen_second) ==
    LET original_points == LoadAll(uploaded_files, 1, <<>>)
        original_distance == calculate_total_distance(original_points)
        first == optimize_route_advanced(seen_first, optimization_level)
        second == optimize_route_quick(seen_second, "basic")
        started == [NotCreated EXCEPT !.requested_level = optimization_level,
                                      !.seen_first = seen_first, !.seen_second = seen_second,
                                      !.original_points = original_points,
                                      !.original_distance = original_distance]
    IN  IF uploaded_files = <<>> THEN EndedBeforeRuns(started, "not_saved")
        ELSE IF original_points = <<>> THEN EndedBeforeRuns(started, "no_points")
        ELSE WithDistanceSaved(
        IF first.status = "returned"
        THEN [started EXCEPT !.status = "continued", !.attempts = <<optimization_level>>,
                             !.optimal_path = first.points, !.optimized_distance = first.distance,
                             !.optimization_level = optimization_level,
                             !.optimization_success = TRUE]
        ELSE IF second.status = "returned"
        THEN [started EXCEPT !.status = "continued", !.attempts = <<optimization_level, "basic">>,
                             !.optimal_path = second.points, !.optimized_distance = second.distance,
                             !.optimization_level = "basic", !.optimization_success = TRUE]
        ELSE [started EXCEPT !.status = "continued", !.attempts = <<optimization_level, "basic">>,
                             !.optimal_path = original_points,
                             !.optimized_distance = original_distance,
                             !.optimization_level = "none", !.optimization_success = FALSE])

\* ------------------------------------------------------------ state
VARIABLES
    points,      \* the track the caller holds and hands to the next stage
    call,        \* the last stage call: its argument and what it returned
    file_paths,  \* the files handed to the pipeline
    run,         \* the last run of the pipeline
    validation,  \* the last report of validate_optimization
    route        \* what create_route made of the uploaded files

vars == <<points, call, file_paths, run, validation, route>>

\* raised: whether the call ended in an exception. The three stages hold no raise statement,
\* and their early returns (lines 70-71, 140-141, 182-183) come before any indexing.
NoCall == [op |-> "none", arg |-> <<>>, epsilon |-> 0, result |-> <<>>, removed_segments |-> 0,
           raised |-> FALSE, steps |-> <<>>, threshold_distance |-> 0]

\* Epsilons handed to the curve simplifier: none, the three levels' and one beyond every deviation of the grid
EpsilonLarge == 2 * EpsilonBasic
Epsilons == {0, EpsilonAdvanced, EpsilonMedium, EpsilonBasic, EpsilonLarge}

\* The three levels and one value that is none of them
Levels == {"basic", "medium", "advanced", "extreme"}

\* ---- stages called one by one, each on the previous result
\* Three close points on a line, then a jump: a first point, a second one less than
\* min_distance east of it, a third one less than min_distance east of the second (and more
\* than min_distance from the first), and a fourth one far to the east.
ScenarioTrack == <<<<0, 0>>, <<0, 1>>, <<0, 2>>, <<0, 24>>>>

Init ==
    /\ points \in Tracks(MaxLen) \cup {ScenarioTrack}
    /\ call = NoCall
    /\ validation = NoReport
    /\ route = NotCreated
    /\ file_paths = <<>>
    /\ run = NotRun

CleanRouteAdvanced ==
    LET result == clean_route_advanced(points, MinDistanceDefault, AngleThresholdDefault)
        steps == IF Len(points) <= 2 THEN <<>>
                 ELSE CleanSteps(points, <<At(points, 0)>>, 1, MinDistanceDefault, AngleThresholdDefault)
    IN  /\ call' = [NoCall EXCEPT !.op = "clean_route_advanced", !.arg = points, !.result = result,
                                  !.steps = steps]
        /\ points' = result
        /\ UNCHANGED <<file_paths, run, validation, route>>

RemoveBacktracking ==
    LET r == remove_backtracking(points, ThresholdDistanceDefault)
    IN  /\ call' = [NoCall EXCEPT !.op = "remove_backtracking", !.arg = points,
                                  !.result = r[1], !.removed_segments = r[2],
                                  !.threshold_distance = ThresholdDistanceDefault]
        /\ points' = r[1]
        /\ UNCHANGED <<file_paths, run, validation, route>>

DouglasPeuckerSimplify ==
    \E epsilon \in Epsilons :
        LET result == douglas_peucker_simplify(points, epsilon)
        IN  /\ call' = [NoCall EXCEPT !.op = "douglas_peucker_simplify", !.arg = points,
                                      !.epsilon = epsilon, !.result = result]
            /\ points' = result
            /\ UNCHANGED <<file_paths, run, validation, route>>

Next == CleanRouteAdvanced \/ RemoveBacktracking \/ DouglasPeuckerSimplify

Spec == Init /\ [][Next]_vars

\* ---- reports on a track and what a stage made of it
\* What the callers hand over as the optimized track: the track itself (app.py 2907), the
\* result of a stage or of the stages on it (app.py 2839-2842), or no point at all.
ValidateCandidates(original_points) ==
    LET cleaned == clean_route_advanced(original_points, MinDistanceDefault, AngleThresholdDefault)
    IN  {original_points, <<>>, cleaned,
         douglas_peucker_simplify(original_points, EpsilonAdvanced),
         douglas_peucker_simplify(cleaned, EpsilonBasic)}

ValidateOptimization ==
    \E optimized_points \in ValidateCandidates(points) :
        /\ validation' = validate_optimization(points, optimized_points)
        /\ UNCHANGED <<points, call, file_paths, run, route>>

NextValidate == ValidateOptimization

SpecValidate == Init /\ [][NextValidate]_vars

\* ---- the pipeline run on files
\* One file, or a track cut into two files, or a file beside an unreadable one.
FileInputs ==
    {<<>>} \cup {<<f>> : f \in Files(MaxPts)}
           \cup UNION {{<<GpxFile(Slice(t, 0, k)), GpxFile(Slice(t, k, Len(t)))>> : k \in 0..Len(t)} :
                           t \in Tracks(MaxPts)}
           \cup {<<Unreadable, f>> : f \in Files(MaxPts)}
           \cup {<<f, Unreadable>> : f \in Files(MaxPts)}

InitOptimize ==
    /\ file_paths \in FileInputs
    /\ run = NotRun
    /\ points = <<>>
    /\ call = NoCall
    /\ validation = NoReport
    /\ route = NotCreated

OptimizeRouteAdvanced ==
    \E optimize_level \in Levels :
        /\ run' = optimize_route_advanced(file_paths, optimize_level)
        /\ UNCHANGED <<file_paths, points, call, validation, route>>

NextOptimize == OptimizeRouteAdvanced

SpecOptimize == InitOptimize /\ [][NextOptimize]_vars

\* ---- places far apart
\* Three places more than 50 m from one another: a track over them only gets near a place
\* it has been by coming back to it.
FarPoints == {<<0, 0>>, <<4, 0>>, <<0, 6>>}

\* ---- the backtrack remover on tracks that come back, and on tracks that never do
\* Three places 27.2 m, 40.8 m and 68 m from one another: a track over them comes back to a
\* place, or within 50 m of one, or only within 100 m of one.
BacktrackPoints == {<<0, 0>>, <<0, 2>>, <<0, 5>>}

\* Tracks that go east along the northern parallel, each point two or four units of
\* longitude (15.6 m or 31.2 m) after the one before.
LineSteps == {2, 4}
RECURSIVE LineFrom(_, _)
LineFrom(lon, steps) ==
    IF steps = <<>> THEN <<<<NorthLat, lon>>>>
    ELSE <<<<NorthLat, lon>>>> \o LineFrom(lon + Head(steps), Tail(steps))
LineTracks == {LineFrom(0, steps) : steps \in UNION {[1..n -> LineSteps] : n \in 0..MaxScan - 1}}

BacktrackTracks == UNION {[1..n -> BacktrackPoints] : n \in 0..MaxScan} \cup LineTracks

\* threshold_distance: the default, 20 m and 100 m
ThresholdSmall == 2000000
ThresholdLarge == 10000000
Thresholds == {ThresholdSmall, ThresholdDistanceDefault, ThresholdLarge}

InitBacktrack ==
    /\ points \in BacktrackTracks
    /\ call = NoCall
    /\ file_paths = <<>>
    /\ run = NotRun
    /\ validation = NoReport
    /\ route = NotCreated

RemoveBacktrackingWith ==
    \E threshold_distance \in Thresholds :
        LET r == remove_backtracking(points, threshold_distance)
            steps == IF Len(points) <= 3 THEN <<>>
                     ELSE BacktrackSteps(points, <<>>, 0, 0, threshold_distance)
        IN  /\ call' = [NoCall EXCEPT !.op = "remove_backtracking", !.arg = points,
                                      !.result = r[1], !.removed_segments = r[2],
                                      !.threshold_distance = threshold_distance,
                                      !.steps = steps]
            /\ points' = r[1]
            /\ UNCHANGED <<file_paths, run, validation, route>>

NextBacktrack == RemoveBacktrackingWith

SpecBacktrack == InitBacktrack /\ [][NextBacktrack]_vars

\* ---- route creation on uploaded files
\* The content of an uploaded file: a track of at most MaxUpload points
UploadFiles == {GpxFile(t) : t \in UNION {[1..n -> FarPoints] : n \in 0..MaxUpload}}
\* No file saved, or an upload of two files.
UploadInputs == {<<>>} \cup {<<a, b>> : a, b \in UploadFiles}

\* What another request can have saved over one of the files: a file is saved under the
\* second of its upload and the name its sender gave it (1021-1026), and two uploads in
\* one second can give the same name.  The other request is any request: its file is any
\* file of an upload.
OtherUploads == UploadFiles

\* The files as a run finds them when it loads them again: each one as it was, unreadable
\* at that moment (removed, as delete_route does at 1401-1403 with the file of a route of
\* that name), or with what another request saved over it.
RECURSIVE SeenLater(_)
SeenLater(files) ==
    IF files = <<>> THEN {<<>>}
    ELSE {<<f>> \o rest : f \in {Head(files), Unreadable} \cup OtherUploads,
                          rest \in SeenLater(Tail(files))}

\* The first run loads the files only when the request's own load gave points (1064-1079).
SeenByFirst(files) ==
    IF LoadAll(files, 1, <<>>) = <<>> THEN {<<>>} ELSE SeenLater(files)

\* The second run loads the files only when the first run raised (1084-1091).
SeenBySecond(files, optimization_level, seen_first) ==
    IF /\ LoadAll(files, 1, <<>>) # <<>>
       /\ optimize_route_advanced(seen_first, optimization_level).status = "raised"
    THEN SeenLater(files)
    ELSE {<<>>}

InitCreate ==
    /\ file_paths \in UploadInputs
    /\ run = NotRun
    /\ points = <<>>
    /\ call = NoCall
    /\ validation = NoReport
    /\ route = NotCreated

\* One POST request, from the form to the answer.  file_paths are the saved files as the
\* request's own load finds them (1055-1063).  The handler holds no lock and other requests
\* go on between its save, its load, its runs and its commit: what they do to the files
\* shows in what the runs find, and each way the request can end is a choice here.
CreateRoute ==
    /\ route = NotCreated
    /\ \E optimization_level \in Levels :
        \/ \E why \in Refusals : route' = Refused(optimization_level, why)
        \/ route' = SaveFailed(optimization_level)
        \/ \E seen_first \in SeenByFirst(file_paths) :
               \E seen_second \in SeenBySecond(file_paths, optimization_level, seen_first) :
                   \E made \in {create_route(file_paths, optimization_level,
                                              seen_first, seen_second)} :
                       \E stored \in BOOLEAN : route' = StoreRoute(made, stored)
    /\ UNCHANGED <<file_paths, points, call, run, validation>>

\* delete_route (1390-1408): the row of a saved route is deleted, with its map file and
\* its first uploaded file.
DeleteRoute ==
    /\ route.outcome = "saved"
    /\ route' = [route EXCEPT !.outcome = "deleted"]
    /\ UNCHANGED <<file_paths, points, call, run, validation>>

\* reset_database (2758-2781): in debug mode every table is dropped and made anew, the
\* files stay; otherwise nothing changes.  Without a saved route there is no row to lose.
ResetDatabase ==
    /\ route.outcome = "saved"
    /\ \E debug \in BOOLEAN :
           route' = IF debug THEN [route EXCEPT !.outcome = "dropped"] ELSE route
    /\ UNCHANGED <<file_paths, points, call, run, validation>>

NextCreate == CreateRoute \/ DeleteRoute \/ ResetDatabase

SpecCreate == InitCreate /\ [][NextCreate]_vars

\* ---- the pipeline run on tracks long enough for the backtrack remover to collapse
LongTracks == UNION {[1..k -> FarPoints] : k \in 0..MaxLong}
\* A track cut into two files at any place.
LongInputs ==
    UNION {{<<GpxFile(Slice(t, 0, k)), GpxFile(Slice(t, k, Len(t)))>> : k \in 0..Len(t)} : t \in LongTracks}

InitLong ==
    /\ file_paths \in LongInputs
    /\ run = NotRun
    /\ points = <<>>
    /\ call = NoCall
    /\ validation = NoReport
    /\ route = NotCreated

SpecLong == InitLong /\ [][NextOptimize]_vars

\* ------------------------------------------------------------ claims
Interior(track) == 1 .. Len(track) - 2
KnownLevels == {"basic", "medium", "advanced"}
PointA == <<0, 0>>
PointNearA == <<0, 1>>
PointB == <<0, 6>>

\* C1: for every input with at least one point, the noise filter returns a track with
\* the input's first point first and the input's last point last, and no longer than the input.
C1_NoiseFilterKeepsEnds ==
    (call.op = "clean_route_advanced" /\ Len(call.arg) >= 1) =>
        /\ Len(call.result) >= 1
        /\ Head(call.result) = Head(call.arg)
        /\ Last(call.result) = Last(call.arg)
        /\ Len(call.result) <= Len(call.arg)

\* The filter dropped an interior point and then appended the last point, which is near its predecessor.
C1_Witness ==
    /\ call.op = "clean_route_advanced"
    /\ Len(call.arg) = 4
    /\ Len(call.result) = 3
    /\ calculate_distance(At(call.result, 1), At(call.result, 2)) < MinDistanceDefault

\* C2 as claimed: every input of length >= 2 gives an output of length >= 2.
C2_OutputAtLeastTwo ==
    (call.op = "clean_route_advanced" /\ Len(call.arg) >= 2) => Len(call.result) >= 2

\* C3 as claimed: A, B, A with B 81.5 m from A (threshold 50 m) comes back shorter, with one segment removed.
C3_ReversalCollapsed ==
    (call.op = "remove_backtracking" /\ call.arg = <<PointA, PointB, PointA>>) =>
        (Len(call.result) < Len(call.arg) /\ call.removed_segments = 1)

\* C4 as claimed: a run with a level that is none of basic, medium, advanced raises.
C4_UnknownLevelRaises ==
    (run.status # "not_run" /\ run.level \notin KnownLevels) => run.status = "raised"

\* C5 as claimed: a run given an unreadable file returns nothing.
C5_UnreadableAborts ==
    (run.status # "not_run" /\ \E n \in 1..Len(file_paths) : ~file_paths[n].readable) =>
        run.status = "raised"

\* C6: when the files hold no point at all the run raises, whatever the level, returns
\* no track and runs no stage.
C6_EmptyInputRaises ==
    (run.status # "not_run" /\ \A n \in 1..Len(file_paths) : file_paths[n].points = <<>>) =>
        (run.status = "raised" /\ run.stages = <<>> /\ run.points = <<>>)

\* Two files, one unreadable and one with no track point, run at level advanced.
C6_Witness ==
    /\ run.status = "raised"
    /\ run.level = "advanced"
    /\ Len(file_paths) = 2
    /\ \E n \in 1..2 : file_paths[n].readable

PointCount(optimize_level) == Len(optimize_route_advanced(file_paths, optimize_level).points)

\* C7: on the same files, advanced returns at least as many points as medium and medium
\* at least as many as basic, their epsilons being ordered advanced < medium < basic.
C7_LevelsOrdered ==
    (run.status = "returned" /\ run.level \in KnownLevels) =>
        /\ Len(run.points) = PointCount(run.level)
        /\ PointCount("advanced") >= PointCount("medium")
        /\ PointCount("medium") >= PointCount("basic")
        /\ LevelEpsilon("advanced") < LevelEpsilon("medium")
        /\ LevelEpsilon("medium") < LevelEpsilon("basic")

\* A run at level medium that kept a point which basic drops, on files where advanced keeps it too.
C7_Witness ==
    /\ run.status = "returned"
    /\ run.level = "medium"
    /\ Len(run.points) > PointCount("basic")
    /\ PointCount("advanced") = Len(run.points)

\* C8: simplifying the result of the simplifier again with the same epsilon changes nothing.
C8_SimplifyIdempotent ==
    call.op = "douglas_peucker_simplify" =>
        douglas_peucker_simplify(call.result, call.epsilon) = call.result

\* A closed track (first = last) with two interior points tied for the largest deviation,
\* of which the simplifier dropped one and kept one.
C8_Witness ==
    /\ call.op = "douglas_peucker_simplify"
    /\ Len(call.arg) = 4
    /\ At(call.arg, 0) = At(call.arg, 3)
    /\ perpendicular_distance(At(call.arg, 1), At(call.arg, 0), At(call.arg, 3))
         = perpendicular_distance(At(call.arg, 2), At(call.arg, 0), At(call.arg, 3))
    /\ Len(call.result) = 3

\* Every point of arg that res leaves out, between the places i of arg and r of res onward,
\* has deviation 0 from the chord of the two points of res around it.
RECURSIVE DroppedOnChord(_, _, _, _)
DroppedOnChord(arg, i, res, r) ==
    IF r = Len(res) - 1 THEN i = Len(arg) - 1
    ELSE \E j \in i + 1 .. Len(arg) - 1 :
            /\ At(arg, j) = At(res, r + 1)
            /\ \A m \in i + 1 .. j - 1 :
                   perpendicular_distance(At(arg, m), At(res, r), At(res, r + 1)) = 0
            /\ DroppedOnChord(arg, j, res, r + 1)

\* C9 as claimed: with epsilon = 0 the simplifier returns every point of its input.
C9_ZeroEpsilonKeepsAll ==
    (call.op = "douglas_peucker_simplify" /\ call.epsilon = 0) => call.result = call.arg

\* C9 amended: with epsilon = 0 the simplifier returns its input without the interior points
\* whose deviation from the chord between the retained points around them is exactly 0.
C9_ZeroEpsilonDropsOnlyOnChord ==
    (call.op = "douglas_peucker_simplify" /\ call.epsilon = 0 /\ Len(call.arg) >= 1) =>
        /\ Len(call.result) >= 1
        /\ At(call.result, 0) = At(call.arg, 0)
        /\ DroppedOnChord(call.arg, 0, call.result, 0)

\* With epsilon = 0, a point off the chord was kept and a point on a chord was dropped.
C9_Witness ==
    /\ call.op = "douglas_peucker_simplify"
    /\ call.epsilon = 0
    /\ Len(call.arg) = 4
    /\ Len(call.result) = 3

\* C10: on a track of length >= 2, an epsilon above every interior point's deviation from the
\* chord first-last gives exactly the first and the last point, also when these coincide.
C10_LargeEpsilonCollapses ==
    (/\ call.op = "douglas_peucker_simplify"
     /\ Len(call.arg) >= 2
     /\ \A i \in Interior(call.arg) :
            perpendicular_distance(At(call.arg, i), At(call.arg, 0), Last(call.arg)) < call.epsilon) =>
        call.result = <<At(call.arg, 0), Last(call.arg)>>

\* A closed track with an interior point away from its ends, collapsed to its two equal ends.
C10_Witness ==
    /\ call.op = "douglas_peucker_simplify"
    /\ Len(call.arg) >= 3
    /\ At(call.arg, 0) = Last(call.arg)
    /\ \E i \in Interior(call.arg) : At(call.arg, i) # At(call.arg, 0)
    /\ \A i \in Interior(call.arg) :
           perpendicular_distance(At(call.arg, i), At(call.arg, 0), Last(call.arg)) < call.epsilon
    /\ call.result = <<At(call.arg, 0), Last(call.arg)>>

\* The input tracks one after the other, in the order of the files.
RECURSIVE ConcatTracks(_)
ConcatTracks(fs) ==
    IF fs = <<>> THEN <<>> ELSE Head(fs).points \o ConcatTracks(Tail(fs))

\* The tolerance the specification gives each level
ClaimedEpsilon(optimize_level) ==
    CASE optimize_level = "advanced" -> EpsilonAdvanced
      [] optimize_level = "medium" -> EpsilonMedium
      [] optimize_level = "basic" -> EpsilonBasic

\* C11: the track a run returns is simplify(remove_backtracking(clean(P)), epsilon(level)), P being
\* the input tracks appended in file order; the three stages run once each, in that order.
C11_PipelineIsComposition ==
    (run.status = "returned" /\ run.level \in KnownLevels) =>
        LET P == ConcatTracks(file_paths)
            filtered == clean_route_advanced(P, MinDistanceDefault, AngleThresholdDefault)
            collapsed == remove_backtracking(filtered, ThresholdDistanceDefault)
        IN  /\ run.all_points = P
            /\ run.points = douglas_peucker_simplify(collapsed[1], ClaimedEpsilon(run.level))
            /\ run.backtracking_removed = collapsed[2]
            /\ run.stages = <<"clean_route_advanced", "remove_backtracking", "douglas_peucker_simplify">>

\* A run on two non-empty files in which the backtrack remover collapsed a detour and the
\* simplifier then dropped a point.
C11_Witness ==
    /\ run.status = "returned"
    /\ Len(file_paths) = 2
    /\ file_paths[1].points # <<>>
    /\ file_paths[2].points # <<>>
    /\ run.backtracking_removed >= 1
    /\ Len(run.points) <
         Len(remove_backtracking(clean_route_advanced(run.all_points, MinDistanceDefault, AngleThresholdDefault),
                                 ThresholdDistanceDefault)[1])

\* C12: after a run, returned or raised, the list of the concatenated input points holds the
\* same points in the same order as before.
C12_InputUnchanged ==
    run.status # "not_run" => run.input_after = ConcatTracks(file_paths)

\* A run that returned a track shorter than its input, the backtrack remover having collapsed a detour.
C12_Witness ==
    /\ run.status = "returned"
    /\ run.backtracking_removed >= 1
    /\ Len(run.points) < Len(run.input_after)
    /\ run.input_after = ConcatTracks(file_paths)

\* A run on at most two points, where every stage hands back the list it was given.
C12_WitnessShort ==
    /\ run.status = "returned"
    /\ Len(run.input_after) = 2
    /\ run.points = run.input_after

\* C13: the report on a non-empty track against itself has no point reduction, no distance
\* reduction in km or percent, efficiency score 0, and equal counts and distances, also when
\* the track's distance is 0.
C13_SelfValidationIsZero ==
    (validation.status # "none" /\ validation.original # <<>>
        /\ validation.optimized = validation.original) =>
            /\ validation.status = "returned"
            /\ validation.points_reduction = 0
            /\ validation.distance_reduction_km = 0
            /\ validation.distance_reduction_percent = 0
            /\ validation.efficiency_score = 0
            /\ validation.original_points = validation.optimized_points
            /\ validation.original_points = Len(validation.original)
            /\ validation.original_distance_km = validation.optimized_distance_km

\* A report on a track of several points and distance 0 against itself.
C13_Witness ==
    /\ validation.status = "returned"
    /\ validation.optimized = validation.original
    /\ Len(validation.original) >= 2
    /\ calculate_total_distance(validation.original) = 0

\* A report on a track of positive distance against itself.
C13_WitnessMoving ==
    /\ validation.status = "returned"
    /\ validation.optimized = validation.original
    /\ validation.original_distance_km > 0

\* C14: validate_optimization never raises; with no original point (or no original distance)
\* it returns a report whose efficiency score (percentage) is 0.
C14_ValidateNeverRaises ==
    validation.status # "none" =>
        /\ validation.status = "returned"
        /\ (Len(validation.original) = 0 => validation.efficiency_score = 0)
        /\ (calculate_total_distance(validation.original) = 0 =>
                validation.distance_reduction_percent = 0)

\* C15: in route creation, a failed run at the requested level is followed by a run at level
\* basic; when that fails too the original points and distance are used with level none and
\* the optimization marked unsuccessful; the request always goes on with a non-empty path.
C15_FallbackLadder ==
    /\ route.status \in {"none", "redirected", "continued"}
    /\ (route.status = "redirected" <=> (route.seen_first # <<>> \/ route.requested_level # "")
                                           /\ route.original_points = <<>>)
    /\ route.status = "continued" =>
        LET first == optimize_route_advanced(route.seen_first, route.requested_level)
            second == optimize_route_advanced(route.seen_second, "basic")
        IN  /\ route.optimal_path # <<>>
            /\ first.status = "returned" =>
                   /\ route.attempts = <<route.requested_level>>
                   /\ route.optimal_path = first.points
                   /\ route.optimized_distance = first.distance
                   /\ route.optimization_level = route.requested_level
                   /\ route.optimization_success
            /\ first.status = "raised" => route.attempts = <<route.requested_level, "basic">>
            /\ (first.status = "raised" /\ second.status = "returned") =>
                   /\ route.optimal_path = second.points
                   /\ route.optimized_distance = second.distance
                   /\ route.optimization_level = "basic"
                   /\ route.optimization_success
            /\ (first.status = "raised" /\ second.status = "raised") =>
                   /\ route.optimal_path = route.original_points
                   /\ route.optimized_distance = route.original_distance
                   /\ route.optimization_level = "none"
                   /\ ~route.optimization_success

\* Both runs failed and the route was made of the original points.
C15_Witness ==
    /\ route.status = "continued"
    /\ route.attempts = <<"advanced", "basic">>
    /\ route.optimization_level = "none"
    /\ Len(route.optimal_path) >= 2

\* The first run failed and the run at level basic made the route.
C15_WitnessBasic ==
    /\ route.status = "continued"
    /\ route.attempts = <<"advanced", "basic">>
    /\ route.optimization_level = "basic"
    /\ route.optimization_success

ShortFor(op) == IF op = "remove_backtracking" THEN 3 ELSE 2

\* C16: a stage given fewer points than it needs (fewer than 3 for the noise filter, whose
\* angle rule needs a triple; fewer than 2 for the backtrack remover and the curve simplifier)
\* signals an error to its caller instead of returning a track.
C16_ShortInputRaises ==
    (\/ call.op = "clean_route_advanced" /\ Len(call.arg) < 3
     \/ call.op \in {"remove_backtracking", "douglas_peucker_simplify"} /\ Len(call.arg) < 2)
        => call.raised

\* C16 as the code has it: no stage call signals an error; the noise filter and the curve
\* simplifier given at most 2 points, and the backtrack remover given at most 3, return the
\* track they were given (the backtrack remover with a count of 0).
C16_ShortInputReturned ==
    call.op # "none" =>
        /\ ~call.raised
        /\ Len(call.arg) <= ShortFor(call.op) =>
               /\ call.result = call.arg
               /\ call.removed_segments = 0

\* The noise filter called on a stationary track of two points, which it hands back.
C16_Witness ==
    /\ call.op = "clean_route_advanced"
    /\ Len(call.arg) = 2
    /\ At(call.arg, 0) = At(call.arg, 1)
    /\ call.result = call.arg
    /\ ~call.raised

\* C17: on the track of three close points on a line and a jump, the noise filter with the
\* default thresholds drops both middle points and returns the first and the last point only.
C17_ScenarioDropsBothMiddle ==
    (call.op = "clean_route_advanced" /\ call.arg = ScenarioTrack) =>
        call.result = <<At(ScenarioTrack, 0), At(ScenarioTrack, 3)>>

\* C17 as the code has it: only the first middle point is dropped (it is closer than
\* min_distance to the first point); the second is at least min_distance from the last
\* retained point and makes no turn, so it stays.
C17_ScenarioDropsFirstMiddle ==
    (call.op = "clean_route_advanced" /\ call.arg = ScenarioTrack) =>
        call.result = <<At(ScenarioTrack, 0), At(ScenarioTrack, 2), At(ScenarioTrack, 3)>>

\* The noise filter was called on the scenario track, whose middle points are less than
\* min_distance from their predecessors.
C17_Witness ==
    /\ call.op = "clean_route_advanced"
    /\ call.arg = ScenarioTrack
    /\ calculate_distance(At(call.arg, 0), At(call.arg, 1)) < MinDistanceDefault
    /\ calculate_distance(At(call.arg, 1), At(call.arg, 2)) < MinDistanceDefault
    /\ Len(call.result) = 3

\* C18: a run on files that hold one point in all does not raise, whatever the level: it
\* returns that point as the track, and the distance 0.
C18_SinglePointRun ==
    (run.status # "not_run" /\ Len(ConcatTracks(SelectSeq(file_paths, LAMBDA f : f.readable))) = 1) =>
        /\ run.status = "returned"
        /\ run.points = ConcatTracks(SelectSeq(file_paths, LAMBDA f : f.readable))
        /\ run.distance = 0
        /\ calculate_total_distance(run.points) = 0
        /\ calculate_total_distance(<<>>) = 0

\* A run at a level that is none of the three, on two files of which one holds the only point.
C18_Witness ==
    /\ run.status = "returned"
    /\ run.level = "extreme"
    /\ Len(file_paths) = 2
    /\ Len(run.all_points) = 1
    /\ run.points = run.all_points

\* The input index of the last point retained before index i, going by the decisions told
RECURSIVE LastRetainedBefore(_, _)
LastRetainedBefore(steps, i) ==
    IF i = 0 THEN 0
    ELSE IF i - 1 >= 1 /\ i - 1 <= Len(steps) /\ steps[i - 1].decision = "kept" THEN i - 1
    ELSE IF i - 1 = 0 THEN 0
    ELSE LastRetainedBefore(steps, i - 1)

\* The points the decisions retain: the first, the interior ones kept, and the last unless
\* the track so far ends with an equal point
RECURSIVE KeptPoints(_, _, _)
KeptPoints(track, steps, k) ==
    IF k > Len(steps) THEN <<>>
    ELSE (IF steps[k].decision = "kept" THEN <<At(track, steps[k].i)>> ELSE <<>>)
         \o KeptPoints(track, steps, k + 1)

RetainedBySteps(track, steps) ==
    LET inner == <<At(track, 0)>> \o KeptPoints(track, steps, 1)
    IN  IF Last(inner) # Last(track) THEN Append(inner, Last(track)) ELSE inner

\* C19: in the pass of the noise filter every interior point is measured against the last
\* point retained so far, never against a dropped point, and it is dropped by the distance
\* rule exactly when that distance is strictly less than min_distance.
C19_DistanceFromLastRetained ==
    (call.op = "clean_route_advanced" /\ Len(call.arg) > 2) =>
        /\ Len(call.steps) = Len(call.arg) - 2
        /\ call.result = RetainedBySteps(call.arg, call.steps)
        /\ \A k \in 1..Len(call.steps) :
               LET step == call.steps[k]
                   reference == At(call.arg, LastRetainedBefore(call.steps, k))
               IN  /\ step.i = k
                   /\ step.prev = reference
                   /\ step.distance_to_prev = calculate_distance(reference, At(call.arg, k))
                   /\ step.decision = "distance" <=>
                          calculate_distance(reference, At(call.arg, k)) < MinDistanceDefault

\* A point less than min_distance from its dropped predecessor and at least min_distance
\* from the last retained point was let through by the distance rule.
C19_Witness ==
    /\ call.op = "clean_route_advanced"
    /\ \E k \in 2..Len(call.steps) :
           /\ call.steps[k - 1].decision = "distance"
           /\ calculate_distance(At(call.arg, k - 1), At(call.arg, k)) < MinDistanceDefault
           /\ call.steps[k].decision = "kept"

\* C20: the angle rule for the interior point at index i is evaluated on the point before
\* it in the input, the point itself and the point after it in the input, also when the
\* point before it was dropped earlier in the pass.
C20_AngleFromInputPredecessor ==
    call.op = "clean_route_advanced" =>
        \A k \in 1..Len(call.steps) :
            call.steps[k].decision \in {"angle", "kept"} =>
                call.steps[k].triple = <<At(call.arg, k - 1), At(call.arg, k), At(call.arg, k + 1)>>

\* C20 as the code has it: the angle rule is evaluated, for every interior point the distance
\* rule lets through, on the last retained point, the point itself and the point after it in
\* the input; the point is dropped when that angle exceeds the threshold and kept otherwise.
C20_AngleFromLastRetained ==
    (call.op = "clean_route_advanced" /\ Len(call.arg) > 2) =>
        /\ call.result = RetainedBySteps(call.arg, call.steps)
        /\ \A k \in 1..Len(call.steps) :
               LET step == call.steps[k]
                   reference == At(call.arg, LastRetainedBefore(call.steps, k))
               IN  /\ step.decision = "distance" <=> step.triple = <<>>
                   /\ step.decision \in {"angle", "kept"} =>
                          /\ step.triple = <<reference, At(call.arg, k), At(call.arg, k + 1)>>
                          /\ step.decision = "angle" <=>
                                 calculate_angle(reference, At(call.arg, k), At(call.arg, k + 1))
                                     > AngleThresholdDefault

\* The angle rule dropped a point whose predecessor in the input had been dropped, and would
\* have kept it had it looked at that predecessor.
C20_Witness ==
    /\ call.op = "clean_route_advanced"
    /\ \E k \in 2..Len(call.steps) :
           /\ call.steps[k - 1].decision # "kept"
           /\ call.steps[k].decision = "angle"
           /\ call.steps[k].triple[1] # At(call.arg, k - 1)
           /\ calculate_angle(At(call.arg, k - 1), At(call.arg, k), At(call.arg, k + 1))
                  <= AngleThresholdDefault

\* b lies on the line from a to c, a, b and c three different places, the track going on
\* at b in the direction it came
StraightThrough(a, b, c) ==
    /\ (b[1] - a[1]) * (c[2] - b[2]) = (b[2] - a[2]) * (c[1] - b[1])
    /\ (b[1] - a[1]) * (c[1] - b[1]) + (b[2] - a[2]) * (c[2] - b[2]) > 0

\* The track comes back at b on the line it came: c lies from b in the direction of a
StraightBack(a, b, c) ==
    /\ (b[1] - a[1]) * (c[2] - b[2]) = (b[2] - a[2]) * (c[1] - b[1])
    /\ (b[1] - a[1]) * (c[1] - b[1]) + (b[2] - a[2]) * (c[2] - b[2]) < 0

\* C21: the angle rule is a straightness filter: an interior point the distance rule lets
\* through that lies on the straight line through its neighbours, the track going on through
\* it, is dropped by the angle rule; a point where the track turns sharply back is kept.
C21_StraightPointDropped ==
    call.op = "clean_route_advanced" =>
        \A k \in 1..Len(call.steps) :
            call.steps[k].decision \in {"angle", "kept"} =>
                /\ (/\ StraightThrough(At(call.arg, k - 1), At(call.arg, k), At(call.arg, k + 1))
                    /\ StraightThrough(call.steps[k].prev, At(call.arg, k), At(call.arg, k + 1)))
                       => call.steps[k].decision = "angle"
                /\ (/\ StraightBack(At(call.arg, k - 1), At(call.arg, k), At(call.arg, k + 1))
                    /\ StraightBack(call.steps[k].prev, At(call.arg, k), At(call.arg, k + 1)))
                       => call.steps[k].decision = "kept"

\* C21 as the code has it: the angle rule drops reversals. A point the distance rule lets
\* through is dropped exactly when the direction from the last retained point to it and the
\* direction from it to the next input point differ by more than the threshold; a point on
\* the straight line with the track going on through it is kept, one where the track comes
\* straight back is dropped.
C21_ReversalDropped ==
    call.op = "clean_route_advanced" =>
        \A k \in 1..Len(call.steps) :
            LET step == call.steps[k]
                next_point == At(call.arg, k + 1)
            IN  step.decision \in {"angle", "kept"} =>
                    /\ step.prev = step.triple[1]
                    /\ step.decision = "angle" <=>
                           calculate_angle(step.prev, At(call.arg, k), next_point) > AngleThresholdDefault
                    /\ StraightThrough(step.prev, At(call.arg, k), next_point) => step.decision = "kept"
                    /\ StraightBack(step.prev, At(call.arg, k), next_point) => step.decision = "angle"

\* A point on the straight line between its neighbours in the input, at least min_distance
\* from the last retained point, was kept, and the stage returned it.
C21_Witness ==
    /\ call.op = "clean_route_advanced"
    /\ \E k \in 1..Len(call.steps) :
           /\ call.steps[k].decision = "kept"
           /\ StraightThrough(At(call.arg, k - 1), At(call.arg, k), At(call.arg, k + 1))
           /\ StraightThrough(call.steps[k].prev, At(call.arg, k), At(call.arg, k + 1))
           /\ \E n \in 1..Len(call.result) : call.result[n] = At(call.arg, k)

\* A point where the track comes straight back was dropped by the angle rule.
C21_WitnessReversal ==
    /\ call.op = "clean_route_advanced"
    /\ \E k \in 1..Len(call.steps) :
           /\ call.steps[k].decision = "angle"
           /\ StraightBack(At(call.arg, k - 1), At(call.arg, k), At(call.arg, k + 1))

\* The points retained up to the k-th iteration of the scan that the inner loop looks at
RecentlyRetained(track, steps, k) ==
    {At(track, steps[n].i) : n \in Max(1, k - Lookback + 1) .. k}

\* The forward indices the k-th iteration looks at and finds near a recently retained point
RevisitsSeen(track, steps, k, threshold_distance) ==
    IF k < MinCleaned THEN {}
    ELSE {j \in steps[k].i + LookaheadFrom .. Min(steps[k].i + LookaheadTo, Len(track)) - 1 :
             \E past_point \in RecentlyRetained(track, steps, k) :
                 calculate_distance(past_point, At(track, j)) < threshold_distance}

CounterBefore(steps, k) == IF k = 1 THEN 0 ELSE steps[k - 1].removed_segments

\* The track and the count the iterations told give
ScanResult(track, steps) == [n \in 1..Len(steps) |-> At(track, steps[n].i)]

\* C22: when the scan at the retained index i finds a forward index j of its lookahead near
\* a recently retained point (the first such j), the input points strictly between i and j
\* are left out, the point at j is the next one retained and the counter goes up by one;
\* otherwise the next input point is retained and the counter stays.
C22_CollapseSkipsToTarget ==
    (call.op = "remove_backtracking" /\ Len(call.arg) > 3) =>
        /\ call.result = ScanResult(call.arg, call.steps)
        /\ call.removed_segments = call.steps[Len(call.steps)].removed_segments
        /\ call.steps[1].i = 0
        /\ \A k \in 1..Len(call.steps) :
               LET step == call.steps[k]
                   seen == RevisitsSeen(call.arg, call.steps, k, call.threshold_distance)
               IN  /\ step.retained = k
                   /\ seen # {} =>
                          /\ step.j \in seen
                          /\ \A j \in seen : step.j <= j
                          /\ k < Len(call.steps)
                          /\ call.steps[k + 1].i = step.j
                          /\ step.removed_segments = CounterBefore(call.steps, k) + 1
                   /\ seen = {} =>
                          /\ step.j = -1
                          /\ step.removed_segments = CounterBefore(call.steps, k)
                          /\ IF k < Len(call.steps) THEN call.steps[k + 1].i = step.i + 1
                             ELSE step.i = Len(call.arg) - 1

\* A scan that found two forward points near a recent one, jumped to the first and left out
\* the two input points before it.
C22_Witness ==
    /\ call.op = "remove_backtracking"
    /\ \E k \in 1..Len(call.steps) :
           /\ Cardinality(RevisitsSeen(call.arg, call.steps, k, call.threshold_distance)) >= 2
           /\ call.steps[k].j = call.steps[k].i + 3
           /\ call.steps[k + 1].i = call.steps[k].j
           /\ Len(call.result) < Len(call.arg)

\* C23: at every retained index i the scan checks each of the next 50 input points (indices
\* i+1 .. i+50, cut at the end of the track) against each of the last 10 retained points, and
\* detects a revisit by any of them (stated here for the retained points before the one at i,
\* the point at i being near its own successors on any track).
C23_WholeWindowChecked ==
    (call.op = "remove_backtracking" /\ Len(call.arg) > 3) =>
        \A k \in 1..Len(call.steps) :
            (\E j \in call.steps[k].i + 1 .. Min(call.steps[k].i + 50, Len(call.arg) - 1) :
                 \E past_point \in RecentlyRetained(call.arg, call.steps, k) \ {At(call.arg, call.steps[k].i)} :
                     calculate_distance(past_point, At(call.arg, j)) < call.threshold_distance)
                => call.steps[k].j # -1

\* The track goes on along one straight line in one direction, every point at least
\* min_distance after the one before
AdvancesOnLine(track) ==
    /\ Len(track) >= 2
    /\ \A n \in 1..Len(track) - 1 : calculate_distance(track[n], track[n + 1]) >= MinDistanceDefault
    /\ \A n \in 2..Len(track) - 1 : StraightThrough(track[n - 1], track[n], track[n + 1])

\* C24: with the threshold of 50 m the backtrack remover returns a track that advances on a
\* straight line in one direction with spacings of at least 15 m as it is, with a count of 0.
C24_NoBacktrackOnStraightLine ==
    (call.op = "remove_backtracking" /\ call.threshold_distance = ThresholdDistanceDefault
        /\ AdvancesOnLine(call.arg)) =>
            /\ call.result = call.arg
            /\ call.removed_segments = 0

\* a can be had from b by leaving points out, the order kept
RECURSIVE IsSubsequence(_, _)
IsSubsequence(a, b) ==
    IF a = <<>> THEN TRUE
    ELSE IF b = <<>> THEN FALSE
    ELSE IF Head(a) = Head(b) THEN IsSubsequence(Tail(a), Tail(b))
    ELSE IsSubsequence(a, Tail(b))

\* C25: whatever the track and the threshold, the backtrack remover returns points of the
\* input in the input's order, the first being the input's first and the last the input's
\* last; a jump never goes past the final point.
C25_BacktrackKeepsEnds ==
    call.op = "remove_backtracking" =>
        /\ IsSubsequence(call.result, call.arg)
        /\ call.arg = <<>> => call.result = <<>>
        /\ call.arg # <<>> =>
               /\ call.result # <<>>
               /\ call.result[1] = call.arg[1]
               /\ Last(call.result) = Last(call.arg)
        /\ \A k \in 1..Len(call.steps) :
               /\ call.steps[k].i <= Len(call.arg) - 1
               /\ call.steps[k].j <= Len(call.arg) - 1
               /\ k = Len(call.steps) => call.steps[k].i = Len(call.arg) - 1

\* A scan that jumped to the final point of the track and retained it.
C25_Witness ==
    /\ call.op = "remove_backtracking"
    /\ \E k \in 1..Len(call.steps) : call.steps[k].j = Len(call.arg) - 1
    /\ Len(call.result) < Len(call.arg)
    /\ Last(call.result) = Last(call.arg)

\* C26: the backtrack remover's result is at least two points shorter than its input for
\* every segment it counts as removed, and a count of zero means the input came back
\* point for point.
C26_TwoPointsPerSegment ==
    call.op = "remove_backtracking" =>
        /\ Len(call.result) <= Len(call.arg) - 2 * call.removed_segments
        /\ call.removed_segments = 0 => call.result = call.arg
        /\ call.removed_segments >= 0

\* One segment removed, of exactly two points: the bound is met with equality.
C26_Witness ==
    /\ call.op = "remove_backtracking"
    /\ call.removed_segments = 1
    /\ Len(call.result) = Len(call.arg) - 2

\* A track longer than three points in which the scan found nothing to remove.
C26_WitnessNothingRemoved ==
    /\ call.op = "remove_backtracking"
    /\ Len(call.arg) > 3
    /\ call.removed_segments = 0
    /\ call.result = call.arg

\* C27: the backtrack remover's scan ends on every track. From one iteration of the outer
\* loop to the next the scan index grows, by one where nothing was found and by at least
\* three (to the forward point) where a segment was removed; so there are at most as many
\* iterations as points, and no index is retained twice.
C27_ScanIndexIncreases ==
    (call.op = "remove_backtracking" /\ Len(call.arg) > 3) =>
        /\ Len(call.steps) >= 1
        /\ Len(call.steps) <= Len(call.arg)
        /\ call.steps[1].i = 0
        /\ \A k \in 1..Len(call.steps) :
               /\ call.steps[k].i \in 0..Len(call.arg) - 1
               /\ call.steps[k].retained = k
        /\ \A k \in 1..Len(call.steps) - 1 :
               /\ call.steps[k + 1].i > call.steps[k].i
               /\ call.steps[k].j = -1 => call.steps[k + 1].i = call.steps[k].i + 1
               /\ call.steps[k].j # -1 =>
                      /\ call.steps[k + 1].i = call.steps[k].j
                      /\ call.steps[k + 1].i >= call.steps[k].i + 3
        /\ \A k, m \in 1..Len(call.steps) : k # m => call.steps[k].i # call.steps[m].i
        /\ Len(call.result) = Len(call.steps)

\* A scan with both kinds of iteration: one that moved on by one and one that jumped.
C27_Witness ==
    /\ call.op = "remove_backtracking"
    /\ Len(call.arg) > 3
    /\ \E k, m \in 1..Len(call.steps) - 1 :
           /\ call.steps[k].j = -1
           /\ call.steps[m].j > call.steps[m].i + 3
           /\ call.steps[m + 1].i = call.steps[m].j

\* C28: for every non-empty concatenated input P and every level, the track a run returns
\* consists of points of P in P's order, begins with P's first point and ends with P's last
\* point (as values), and has between 1 and len(P) points.
C28_RunReturnsSubsequence ==
    LET P == ConcatTracks(file_paths)
    IN  (run.status # "not_run" /\ P # <<>>) =>
            /\ run.status = "returned"
            /\ IsSubsequence(run.points, P)
            /\ Len(run.points) \in 1..Len(P)
            /\ run.points[1] = P[1]
            /\ Last(run.points) = Last(P)

\* A run in which the backtrack remover removed a segment and another stage left out a
\* further point, the result still having a point between its two different ends.
C28_Witness ==
    /\ run.status = "returned"
    /\ run.backtracking_removed >= 1
    /\ Len(run.points) >= 3
    /\ Len(run.points) < Len(run.all_points) - 2 * run.backtracking_removed
    /\ run.points[1] # Last(run.points)

\* The points loaded by the run that made the route: the first run's, else the second
\* run's, else (both runs having raised) the request's own.
LoadedForRoute(made) ==
    IF optimize_route_advanced(made.seen_first, made.requested_level).status = "returned"
    THEN ConcatTracks(made.seen_first)
    ELSE IF optimize_route_advanced(made.seen_second, "basic").status = "returned"
    THEN ConcatTracks(made.seen_second)
    ELSE made.original_points

\* C29: the distance a run returns is the total distance of the track it returns and is
\* not greater than the total distance of the concatenated input, so in the caller
\* original_distance - optimized_distance is never negative and max(0, .) never changes it.
C29_ClampLeavesValue ==
    route.status = "continued" =>
        /\ route.optimized_distance = calculate_total_distance(route.optimal_path)
        /\ route.optimized_distance <= route.original_distance
        /\ route.distance_saved_meters = route.original_distance - route.optimized_distance

\* What does hold in the caller: the distance of the route is the total distance of its
\* track and is not greater than the total distance of the points the run loaded.  The
\* caller's original_distance comes from a load of its own: where the run found the same
\* points, or some of them in the same order, the difference is not negative and max(0, .)
\* leaves it; where it found other points the route can be the longer, and the saving
\* stored is then 0.
C29_ClampActsOnChangedFiles ==
    route.status = "continued" =>
        LET loaded == LoadedForRoute(route)
            difference == route.original_distance - route.optimized_distance
        IN  /\ route.optimized_distance = calculate_total_distance(route.optimal_path)
            /\ route.optimized_distance <= calculate_total_distance(loaded)
            /\ IsSubsequence(loaded, route.original_points) =>
                   /\ difference >= 0
                   /\ route.distance_saved_meters = difference
            /\ difference < 0 => route.distance_saved_meters = 0
            /\ route.distance_saved_meters >= 0

\* The run alone, on the tracks that come back: what it returns is no longer than what it loaded.
C29_DistanceNeverGrows ==
    run.status = "returned" =>
        LET original_distance == calculate_total_distance(ConcatTracks(file_paths))
        IN  /\ run.distance = calculate_total_distance(run.points)
            /\ run.distance <= original_distance
            /\ Max(0, original_distance - run.distance) = original_distance - run.distance

\* A route made by a run that found another upload in place of a file: it is longer than
\* the request's own points, and the saving stored is 0.
C29_Witness ==
    /\ route.status = "continued"
    /\ route.optimization_success
    /\ ~IsSubsequence(LoadedForRoute(route), route.original_points)
    /\ route.optimized_distance > route.original_distance
    /\ route.distance_saved_meters = 0

\* A request whose run found fewer of the files, in their order: its route is the shorter
\* and the saving stored is the plain difference.
C29_WitnessCaller ==
    /\ route.status = "continued"
    /\ route.optimization_success
    /\ IsSubsequence(LoadedForRoute(route), route.original_points)
    /\ route.distance_saved_meters > 0
    /\ route.distance_saved_meters = route.original_distance - route.optimized_distance
    /\ route.outcome = "saved"
    /\ route.message = "optimized"

\* A run that returned a track with fewer points and a strictly shorter, non-zero length.
C29_WitnessRun ==
    /\ run.status = "returned"
    /\ Len(run.points) < Len(run.all_points)
    /\ run.distance > 0
    /\ run.distance < calculate_total_distance(run.all_points)

\* C30: in what the noise filter returns for a track of more than 2 points, two neighbouring
\* points are at least min_distance apart, the last two excepted: only the last point,
\* which is always kept, may be nearer to the point before it.
C30_RetainedPointsApart ==
    (call.op = "clean_route_advanced" /\ Len(call.arg) > 2) =>
        \A k \in 1..Len(call.result) - 2 :
            calculate_distance(call.result[k], call.result[k + 1]) >= MinDistanceDefault

\* A result of three points or more whose last two are nearer than min_distance, after a
\* pass that dropped a point for being too near.
C30_Witness ==
    /\ call.op = "clean_route_advanced"
    /\ Len(call.arg) > 2
    /\ Len(call.result) >= 3
    /\ Len(call.result) < Len(call.arg)
    /\ calculate_distance(call.result[Len(call.result) - 1], Last(call.result)) < MinDistanceDefault
    /\ \E k \in 1..Len(call.steps) : call.steps[k].decision = "distance"

====
